---- MODULE Spec2Model ----
(***************************************************************************)
(* Model of GAN-EOT: the training controller of AdvNet (advnet.py), the    *)
(* batch generator and label functions of data.py.                         *)
(*                                                                         *)
(* The specifications of the module:                                       *)
(*   Spec        AdvNet.train with save / load_model across process runs   *)
(*   SpecRun     one process of AdvNet.train, with its scheduling          *)
(*   SpecNumeric one process in which a training loss may be non-finite    *)
(*   SpecSamples one process, the dataset indices of its batches followed  *)
(*   SpecData    BatchGenerator.get_next_batch with the fool rates of its  *)
(*               batches, get_random_target_label, is_prediction_true      *)
(*   SpecTarget  get_random_target_label with fair draws                   *)
(*   SpecTexture AdvNet.generate_adversarial_texture                       *)
(*   SpecRate    the learning rates of the two optimisers                  *)
(* Each specification holds the variables of the other parts at their idle *)
(* values; every action leaves the variables of the other parts unchanged. *)
(***************************************************************************)
EXTENDS Integers, Sequences, FiniteSets, TLC

(***************************************************************************)
(* Bounds of the model.  hyper_params is an argument of AdvNet.__init__;   *)
(* every step count of it ranges from 0 up to the bound below.             *)
(***************************************************************************)
MaxTotalSteps == 3
MaxSubSteps == 2
MaxValidateAfter == 2
MaxWarmupSteps == 1
MaxWarmupEvaluationSteps == 1
MaxTestSteps == 1
MaxRuns == 2

VARIABLES
    \* ---- AdvNet.train ----
    hyper_params,                 \* self._hyper_params (step counts only)
    load_checkpoint,              \* argument of train
    pc,                           \* position of the running process in train
    error,                        \* exception that ended the run, or "none"
    global_step,                  \* local of train: <<k>> for the int k, <<>> for None
    i,                            \* counter of the for loop being executed
    simulator_loss_history,
    simulator_accuracy_history,
    generator_loss_history,
    generator_l2_loss_history,
    generator_tfr_history,
    test_loss_history,
    test_tfr_history,
    simulator_weights,            \* number of optimiser updates in the simulator's parameters
    generator_weights,            \* number of optimiser updates in the generator's parameters
    ufr,                          \* local of train: the last UFR value computed (line 174)
    disk,                         \* the three checkpoint files written by save
    runs,                         \* number of processes started so far
    executed,                     \* GlobalStep values whose cycle was executed, in order,
                                  \* along the lineage checkpoint -> resume (history variable)
    saved,                        \* what the object held when the archive on disk was
                                  \* written: executed, the seven histories by name, and
                                  \* the step (history variable)
    enemy_weights,                \* number of optimiser updates in the enemy's parameters
    batches,                      \* number of get_next_batch calls of the running process
    batch,                        \* locals textures, uv_maps, labels of train: the number
                                  \* of the batch they hold (0: none yet)
    last_update,                  \* the last simulator update: what it was computed on,
                                  \* from which batch, at which step, and the mode of the
                                  \* generator that made its textures (history variable)
    follow_samples,               \* whether the model follows the dataset indices drawn
    samples,                      \* dataset indices drawn so far by the running process,
                                  \* by the use made of the batch (history variable)
    nonfinite_budget,             \* how many losses of the run may still be non-finite
    nonfinite_step                \* the step argument of the first sub-step whose loss
                                  \* was non-finite, <<>> if none (history variable)

trainVars == <<hyper_params, load_checkpoint, pc, error, global_step, i,
               simulator_loss_history, simulator_accuracy_history,
               generator_loss_history, generator_l2_loss_history,
               generator_tfr_history, test_loss_history, test_tfr_history,
               simulator_weights, generator_weights, ufr, disk, runs,
               executed, saved, enemy_weights, batches, batch, last_update,
               follow_samples, samples, nonfinite_budget, nonfinite_step>>

\* what only the steps that draw a batch, update the simulator or compute a
\* training loss change
batchDrawVars == <<batches, batch, samples>>
lossVars == <<nonfinite_budget, nonfinite_step>>
stepVars == <<enemy_weights, follow_samples, batchDrawVars, last_update, lossVars>>

histories == <<simulator_loss_history, simulator_accuracy_history,
               generator_loss_history, generator_l2_loss_history,
               generator_tfr_history, test_loss_history, test_tfr_history>>

\* Python's None, and an int, as values of global_step
None == <<>>
IntVal(k) == <<k>>
IsNone(v) == v = None
Val(v) == v[1]

(***************************************************************************)
(* A history entry stands for the float the code appends.  It is named by  *)
(* the computation that produced it: <<what, on, step, sub>>.              *)
(*   what : which quantity ("sim_loss", "sim_acc", "gen_main", "gen_l2",   *)
(*          "gen_tfr", "ufr", "test_loss", "test_tfr")                     *)
(*   on   : what it was computed on ("clean", "adv", "test")               *)
(*   step : the step argument / GlobalStep of the computation              *)
(*   sub  : the sub-step (loop index) inside the cycle                     *)
(***************************************************************************)
Entry(what, on, step, sub) == <<what, on, step, sub>>
What(e) == e[1]
On(e) == e[2]
StepOf(e) == e[3]

HyperParams ==
    [TotalSteps : {MaxTotalSteps},
     SimulatorSteps : 0..MaxSubSteps,
     GeneratorSteps : 0..MaxSubSteps,
     ValidateAfter : 0..MaxValidateAfter,
     WarmupSteps : 0..MaxWarmupSteps,
     WarmupEvaluationSteps : 0..MaxWarmupEvaluationSteps,
     TestSteps : 0..MaxTestSteps]

(***************************************************************************)
(* Checkpoint files.  The archive training_history.npz holds the           *)
(* positional arrays arr_0 .. arr_7 of np.savez: arrays[k+1] is arr_k and  *)
(* keys is the set of k present in the file.                               *)
(***************************************************************************)
ArchiveKeys == 0..7
NoArrays == [k \in 1..8 |-> <<>>]
NoFile == [exists |-> FALSE, weights |-> 0]
NoArchive == [exists |-> FALSE, keys |-> {}, arrays |-> NoArrays]
EmptyDisk == [simulator |-> NoFile, generator |-> NoFile, history |-> NoArchive]

\* np.savez('training_history', a0, ..., a7): the k-th positional argument
\* is stored under the key arr_k
savez(args) ==
    [exists |-> TRUE, keys |-> ArchiveKeys, arrays |-> [k \in 1..8 |-> args[k]]]

\* array_dict['arr_k'] of an archive that holds the key
arr(archive, k) == archive.arrays[k + 1]


(***************************************************************************)
(* data.py: labels                                                         *)
(*                                                                         *)
(* A ground truth (Model3D.labels) is a Python value: the string "dog", a  *)
(* list of ints, or, for a caller that breaks the contract, a value of     *)
(* another shape.  [shape, str, items] holds its type, its text when it is *)
(* a string, and its elements when it is a list or a tuple.                *)
(***************************************************************************)
Dog == [shape |-> "str", str |-> "dog", items |-> <<>>]
List(s) == [shape |-> "list", str |-> "", items |-> s]
Tuple(s) == [shape |-> "tuple", str |-> "", items |-> s]
Str(t) == [shape |-> "str", str |-> t, items |-> <<>>]

(***************************************************************************)
(* State variables of the other two specifications.                        *)
(***************************************************************************)
VARIABLES
    \* ---- data.py ----
    mode,                         \* what the data harness exercises
    index_queue,                  \* indices the index generator has still to yield
    index_log,                    \* the last NumModels indices get_next_sample drew, oldest
                                  \* first (history variable)
    batch_labels,                 \* BatchGenerator.batch_labels
    batch_target_labels,          \* BatchGenerator.batch_target_labels
    batch_textures,               \* BatchGenerator.batch_textures: each row is named by the
                                  \* dataset index of the texture it holds (0: the zeros of
                                  \* line 208)
    bpc,                          \* position inside get_next_batch
    tl_pc,                        \* position inside get_random_target_label
    tl_truth,                     \* its argument ground_truth_labels
    tl_label_set,                 \* its local label_set (line 271)
    tl_target,                    \* its local target_label
    ipt_args,                     \* arguments of the last is_prediction_true call
    ipt_ret,                      \* its outcome
    enemy_labels,                 \* train's local enemy_labels: the Oracle's predictions on
                                  \* the batch (line 172)
    fool_rates,                   \* train's locals tfr and ufr (lines 173-174)
    \* ---- generate_adversarial_texture ----
    std_textures,                 \* argument: the clean texture, one value per element
    adversarial_noises,           \* output of the generator network
    adversarial_textures,         \* the returned texture
    \* ---- the two Adam optimisers ----
    rate_params,                  \* the learning-rate entries of the hyper parameters
    iterations                    \* optimiser.iterations: the updates each optimiser applied

measureVars == <<enemy_labels, fool_rates>>
dataVars == <<mode, index_queue, index_log, batch_labels, batch_target_labels, batch_textures,
              bpc, tl_pc, tl_truth, tl_label_set, tl_target, ipt_args, ipt_ret, measureVars>>
textureVars == <<std_textures, adversarial_noises, adversarial_textures>>
optimiserVars == <<rate_params, iterations>>

vars == <<trainVars, dataVars, textureVars, optimiserVars>>

\* the elements of a Python list
Elements(s) == {s[n] : n \in 1..Len(s)}


(***************************************************************************)
(* BatchGenerator: the dataset and the stream of indices                   *)
(***************************************************************************)
\* number of Model3D in the dataset and hyper_params['BatchSize']
NumModels == 3
BatchSize == 2

\* the dataset: the labels of the Model3D at each index (1-based)
DatasetPool == <<List(<<5>>), Dog, List(<<0, 999>>), List(<<151, 275>>)>>
models == [n \in 1..NumModels |-> DatasetPool[((n - 1) % Len(DatasetPool)) + 1]]

\* preproc.get_index_generator(n): shuffle the indices, yield them one by
\* one, reshuffle when they are used up
Shuffles(n) == {q \in [1..n -> 1..n] : \A a, b \in 1..n : q[a] = q[b] => a = b}
IndexStream(queue, n) ==
    IF queue = <<>> THEN Shuffles(n) ELSE {queue}

\* the last n elements of a log after x is added to it
Logged(log, x, n) == IF Len(log) < n THEN Append(log, x) ELSE Append(Tail(log), x)

\* mutant: next() is called twice and the first index is thrown away
get_next_sample_SkipsOne(stream) ==
    LET q == IF Len(stream) >= 2 THEN Tail(stream) ELSE stream
    IN  [index |-> Head(q), sample |-> models[Head(q)], stream |-> Tail(q)]

\* get_next_sample (lines 242-253): the next index of the stream is taken
\* and the Model3D at that index is returned
get_next_sample(stream) ==
    [index |-> Head(stream), sample |-> models[Head(stream)], stream |-> Tail(stream)]


\* the rest of dataVars when the index stream moves
dataRest == <<mode, index_log, batch_labels, batch_target_labels, batch_textures,
              bpc, tl_pc, tl_truth, tl_label_set, tl_target, ipt_args, ipt_ret, measureVars>>

\* tfr and ufr before line 173 assigns them
NotMeasured == [error |-> "none", tfr |-> <<0, 1>>, ufr |-> <<0, 1>>]

(***************************************************************************)
(* get_next_batch (lines 216-240) as the training controller sees it: one  *)
(* call draws BatchSize samples.  DrawnBatches is every outcome of the     *)
(* call: the indices drawn and the stream that is left.                    *)
(***************************************************************************)
RECURSIVE DrawnBatches(_, _)
DrawnBatches(stream, n) ==
    IF n = 0 THEN {[stream |-> stream, indices |-> {}]}
    ELSE UNION {LET next == get_next_sample(q)
                IN  {[stream |-> d.stream, indices |-> d.indices \cup {next.index}] :
                        d \in DrawnBatches(next.stream, n - 1)} :
                q \in IndexStream(stream, NumModels)}

NoSamples == [train |-> {}, warm_up_eval |-> {}, test |-> {}]

\* a call of data_generator.get_next_batch() whose batch is put to use `use`
get_next_batch(use) ==
    /\ batches' = batches + 1
    /\ batch' = batches + 1
    /\ IF follow_samples
       THEN \E d \in DrawnBatches(index_queue, BatchSize) :
               /\ index_queue' = d.stream
               /\ samples' = [samples EXCEPT ![use] = @ \cup d.indices]
       ELSE UNCHANGED <<index_queue, samples>>

(***************************************************************************)
(* A training loss (simulator_loss, generator_loss) is a float and may be  *)
(* NaN or infinite.  Neither the loss functions nor the training steps     *)
(* test it: the value is appended and used like any other.                 *)
(***************************************************************************)
loss_computed(step) ==
    \E finite \in (IF nonfinite_budget > 0 THEN BOOLEAN ELSE {TRUE}) :
        IF finite
        THEN UNCHANGED lossVars
        ELSE /\ nonfinite_budget' = nonfinite_budget - 1
             /\ nonfinite_step' = IF IsNone(nonfinite_step) THEN IntVal(step)
                                  ELSE nonfinite_step

NoUpdate == [on |-> "none", batch |-> 0, step |-> 0, generator |-> "none"]
Update(on, b, step, mode_of_generator) ==
    [on |-> on, batch |-> b, step |-> step, generator |-> mode_of_generator]

(***************************************************************************)
(* AdvNet.__init__ (lines 54-63): the seven histories start empty.  The    *)
(* networks start with freshly initialised parameters (0 updates).         *)
(***************************************************************************)
NewNet(sl, sa, gl, gl2, gt, tl, tt, sw, gw) ==
    /\ sl = <<>> /\ sa = <<>>
    /\ gl = <<>> /\ gl2 = <<>> /\ gt = <<>>
    /\ tl = <<>> /\ tt = <<>>
    /\ sw = 0 /\ gw = 0

\* train, lines 139-143: where a run starts
Entry_pc(lc) == IF lc THEN "load_model" ELSE "warm_up_train"

Raise(e) == pc' = "error" /\ error' = e

\* list.pop(): removes the last element
Pop(h) == SubSeq(h, 1, Len(h) - 1)

(***************************************************************************)
(* simulator_training_step (lines 280-308) with simulator_loss (396-425):  *)
(* one loss and one accuracy entry are appended, then the optimiser        *)
(* updates the simulator.                                                  *)
(***************************************************************************)
simulator_loss_appended(h, on, step, sub) == Append(h, Entry("sim_loss", on, step, sub))
simulator_accuracy_appended(h, on, step, sub) == Append(h, Entry("sim_acc", on, step, sub))

\* mutant: the entries are recorded but the optimiser is not applied
simulator_training_step_NotApplied(on, step, sub, lossBefore, accBefore) ==
    /\ simulator_loss_history' = simulator_loss_appended(lossBefore, on, step, sub)
    /\ simulator_accuracy_history' = simulator_accuracy_appended(accBefore, on, step, sub)
    /\ simulator_weights' = simulator_weights

simulator_training_step(on, step, sub, lossBefore, accBefore) ==
    /\ simulator_loss_history' = simulator_loss_appended(lossBefore, on, step, sub)
    /\ simulator_accuracy_history' = simulator_accuracy_appended(accBefore, on, step, sub)
    /\ simulator_weights' = simulator_weights + 1


(***************************************************************************)
(* warm_up_simulator (lines 187-216)                                       *)
(***************************************************************************)
\* one iteration of the training loop, lines 199-202
WarmUpTrainStep ==
    /\ pc = "warm_up_train"
    /\ i < hyper_params.WarmupSteps
    /\ simulator_training_step("clean", i - hyper_params.WarmupSteps, i,
                               simulator_loss_history, simulator_accuracy_history)
    /\ i' = i + 1
    /\ get_next_batch("train")
    /\ loss_computed(i - hyper_params.WarmupSteps)
    /\ last_update' = Update("clean", batches + 1, i - hyper_params.WarmupSteps, "none")
    /\ UNCHANGED <<dataRest, textureVars, optimiserVars, enemy_weights, follow_samples,
                   hyper_params, load_checkpoint, pc, error, global_step,
                   generator_loss_history, generator_l2_loss_history,
                   generator_tfr_history, test_loss_history, test_tfr_history,
                   generator_weights, ufr, disk, runs, executed, saved>>

\* the training loop is exhausted, lines 204-206
WarmUpTrainDone ==
    /\ pc = "warm_up_train"
    /\ i = hyper_params.WarmupSteps
    /\ pc' = "warm_up_eval"
    /\ i' = 0
    /\ UNCHANGED <<dataVars, textureVars, optimiserVars, stepVars, hyper_params, load_checkpoint, error, global_step, histories,
                   simulator_weights, generator_weights, ufr, disk, runs,
                   executed, saved>>

\* one iteration of the evaluation loop, lines 207-209: warm_up_evaluation
\* (218-251) runs the simulator in inference mode and returns an accuracy
WarmUpEvalStep ==
    /\ pc = "warm_up_eval"
    /\ i < hyper_params.WarmupEvaluationSteps
    /\ i' = i + 1
    /\ get_next_batch("warm_up_eval")
    /\ UNCHANGED <<dataRest, textureVars, optimiserVars, enemy_weights, follow_samples, last_update, lossVars,
                   hyper_params, load_checkpoint, pc, error, global_step, histories,
                   simulator_weights, generator_weights, ufr, disk, runs,
                   executed, saved>>

\* mutant: the warm-up entries are kept
warm_up_discard_Kept(loss, acc) ==
    /\ simulator_loss_history' = loss
    /\ simulator_accuracy_history' = acc

\* lines 215-216: the histories recorded during warm-up are discarded
warm_up_discard(loss, acc) ==
    /\ simulator_loss_history' = <<>>
    /\ simulator_accuracy_history' = <<>>

\* lines 211-216, then line 143 of train.  0.0 / 0 raises ZeroDivisionError.
WarmUpFinish ==
    /\ pc = "warm_up_eval"
    /\ i = hyper_params.WarmupEvaluationSteps
    /\ IF hyper_params.WarmupEvaluationSteps = 0
       THEN /\ Raise("ZeroDivisionError")
            /\ UNCHANGED <<global_step, i, simulator_loss_history,
                           simulator_accuracy_history>>
       ELSE /\ warm_up_discard(simulator_loss_history, simulator_accuracy_history)
            /\ global_step' = IntVal(1)
            /\ pc' = "evaluate_initial"
            /\ i' = 0
            /\ error' = error
    /\ UNCHANGED <<dataVars, textureVars, optimiserVars, stepVars, hyper_params, load_checkpoint,
                   generator_loss_history, generator_l2_loss_history,
                   generator_tfr_history, test_loss_history, test_tfr_history,
                   simulator_weights, generator_weights, ufr, disk, runs,
                   executed, saved>>

(***************************************************************************)
(* load_model (lines 540-554) and load_training_history (556-584)          *)
(***************************************************************************)
\* the first key array_dict[...] is asked for and the archive lacks; 8 if none
FirstMissing(archive) ==
    IF archive.keys = ArchiveKeys THEN 8
    ELSE CHOOSE k \in ArchiveKeys \ archive.keys :
            \A m \in ArchiveKeys \ archive.keys : k <= m

\* lines 574-580: history number k of the object after the assignments that
\* are executed before a KeyError, if any.  ndarray.tolist() gives back the
\* saved list element for element.
tolist(a) == [n \in 1..Len(a) |-> a[n]]
Restored(archive, k, current) ==
    IF archive.exists /\ k < FirstMissing(archive) THEN tolist(arr(archive, k)) ELSE current

load_training_history(archive) ==
    /\ simulator_loss_history' = Restored(archive, 0, simulator_loss_history)
    /\ simulator_accuracy_history' = Restored(archive, 1, simulator_accuracy_history)
    /\ generator_loss_history' = Restored(archive, 2, generator_loss_history)
    /\ generator_l2_loss_history' = Restored(archive, 3, generator_l2_loss_history)
    /\ generator_tfr_history' = Restored(archive, 4, generator_tfr_history)
    /\ test_loss_history' = Restored(archive, 5, test_loss_history)
    /\ test_tfr_history' = Restored(archive, 6, test_tfr_history)
    /\ IF ~archive.exists
       THEN \* line 571: no file, the function falls off its end and returns None
            /\ global_step' = None
            /\ pc' = "evaluate_initial"
            /\ error' = error
            /\ executed' = executed
       ELSE IF FirstMissing(archive) < 8
       THEN \* array_dict['arr_k'] raises KeyError
            /\ Raise("KeyError")
            /\ UNCHANGED <<global_step, executed>>
       ELSE /\ global_step' = IntVal(arr(archive, 7)[1])
            /\ pc' = "evaluate_initial"
            /\ error' = error
            /\ executed' = saved.executed

\* load_weights raises when the checkpoint file does not exist
LoadModel ==
    /\ pc = "load_model"
    /\ IF ~disk.simulator.exists
       THEN /\ Raise("NotFoundError")
            /\ UNCHANGED <<global_step, histories, simulator_weights,
                           generator_weights, executed>>
       ELSE IF ~disk.generator.exists
       THEN /\ Raise("NotFoundError")
            /\ simulator_weights' = disk.simulator.weights
            /\ UNCHANGED <<global_step, histories, generator_weights, executed>>
       ELSE /\ simulator_weights' = disk.simulator.weights
            /\ generator_weights' = disk.generator.weights
            /\ load_training_history(disk.history)
    /\ i' = 0
    /\ UNCHANGED <<dataVars, textureVars, optimiserVars, stepVars, hyper_params, load_checkpoint, ufr, disk, runs, saved>>

(***************************************************************************)
(* evaluate (lines 473-523), called at line 144 and at line 182            *)
(***************************************************************************)
\* one test batch, lines 490-515: inference only
EvaluateStep(site) ==
    /\ pc = site
    /\ i < hyper_params.TestSteps
    /\ i' = i + 1
    /\ get_next_batch("test")
    /\ UNCHANGED <<dataRest, textureVars, optimiserVars, enemy_weights, follow_samples, last_update, lossVars,
                   hyper_params, load_checkpoint, pc, error, global_step, histories,
                   simulator_weights, generator_weights, ufr, disk, runs,
                   executed, saved>>

\* mutant: every test batch leaves an entry of its own as well
test_appended_PerBatchToo(loss, tfr) ==
    /\ test_loss_history' = Append(Append(loss, Entry("test_loss", "test", generator_weights, 1)),
                                   Entry("test_loss", "test", generator_weights, 0))
    /\ test_tfr_history' = Append(Append(tfr, Entry("test_tfr", "test", generator_weights, 1)),
                                  Entry("test_tfr", "test", generator_weights, 0))

\* lines 521-522: the values are named by the generator they were measured on
test_appended(loss, tfr) ==
    /\ test_loss_history' = Append(loss, Entry("test_loss", "test", generator_weights, 0))
    /\ test_tfr_history' = Append(tfr, Entry("test_tfr", "test", generator_weights, 0))

\* lines 517-523.  0.0 / 0 raises ZeroDivisionError.
EvaluateFinish(site, return_to) ==
    /\ pc = site
    /\ i = hyper_params.TestSteps
    /\ IF hyper_params.TestSteps = 0
       THEN /\ Raise("ZeroDivisionError")
            /\ UNCHANGED <<test_loss_history, test_tfr_history>>
       ELSE /\ test_appended(test_loss_history, test_tfr_history)
            /\ pc' = return_to
            /\ error' = error
    /\ i' = 0
    /\ UNCHANGED <<dataVars, textureVars, optimiserVars, stepVars, hyper_params, load_checkpoint, global_step,
                   simulator_loss_history, simulator_accuracy_history,
                   generator_loss_history, generator_l2_loss_history,
                   generator_tfr_history,
                   simulator_weights, generator_weights, ufr, disk, runs,
                   executed, saved>>

EvaluateInitialStep == EvaluateStep("evaluate_initial")
EvaluateInitialFinish == EvaluateFinish("evaluate_initial", "loop")
EvaluatePeriodicStep == EvaluateStep("evaluate_periodic")
EvaluatePeriodicFinish == EvaluateFinish("evaluate_periodic", "save_simulator")


(***************************************************************************)
(* The main loop of train (lines 146-185)                                  *)
(***************************************************************************)
\* mutant: the loop stops one cycle early
loop_condition_Strict(step, total) == step < total

\* line 147: the condition of the while loop
loop_condition(step, total) == step <= total

\* line 147: None <= int raises TypeError
LoopTest ==
    /\ pc = "loop"
    /\ IF IsNone(global_step)
       THEN /\ Raise("TypeError")
            /\ UNCHANGED <<i, executed>>
       ELSE IF loop_condition(Val(global_step), hyper_params.TotalSteps)
       THEN /\ pc' = "simulator_phase"
            /\ i' = 0
            /\ executed' = Append(executed, Val(global_step))
            /\ error' = error
       ELSE /\ pc' = "done"
            /\ UNCHANGED <<i, executed, error>>
    /\ UNCHANGED <<dataVars, textureVars, optimiserVars, stepVars, hyper_params, load_checkpoint, global_step, histories,
                   simulator_weights, generator_weights, ufr, disk, runs,
                   saved>>

\* mutant: only the loss entry of the clean-image step is removed
clean_entries_popped_LossOnly(loss, acc) ==
    /\ simulator_loss_history' = Pop(loss)
    /\ simulator_accuracy_history' = acc

\* lines 159-160: the entries of the clean-image step are removed
clean_entries_popped(loss, acc) ==
    /\ simulator_loss_history' = Pop(loss)
    /\ simulator_accuracy_history' = Pop(acc)

\* lines 151-160: a batch is drawn, the simulator is trained on the clean
\* textures, and the two entries this appended are popped
SimulatorCleanStep ==
    /\ pc = "simulator_phase"
    /\ i < hyper_params.SimulatorSteps
    /\ simulator_weights' = simulator_weights + 1
    /\ clean_entries_popped(
          simulator_loss_appended(simulator_loss_history, "clean", Val(global_step), i),
          simulator_accuracy_appended(simulator_accuracy_history, "clean", Val(global_step), i))
    /\ pc' = "simulator_adv"
    /\ get_next_batch("train")
    /\ loss_computed(Val(global_step))
    /\ last_update' = Update("clean", batches + 1, Val(global_step), "none")
    /\ UNCHANGED <<dataRest, textureVars, optimiserVars, enemy_weights, follow_samples, hyper_params, load_checkpoint, error, global_step, i,
                   generator_loss_history, generator_l2_loss_history,
                   generator_tfr_history, test_loss_history, test_tfr_history,
                   generator_weights, ufr, disk, runs, executed, saved>>

\* lines 164-165: the generator (inference mode) makes adversarial textures
\* from the same batch and the simulator is trained on them
SimulatorAdvStep ==
    /\ pc = "simulator_adv"
    /\ simulator_training_step("adv", Val(global_step), i,
                               simulator_loss_history, simulator_accuracy_history)
    /\ i' = i + 1
    /\ pc' = "simulator_phase"
    /\ loss_computed(Val(global_step))
    /\ last_update' = Update("adv", batch, Val(global_step), "inference")
    /\ UNCHANGED <<dataVars, textureVars, optimiserVars, enemy_weights, follow_samples, batchDrawVars,
                   hyper_params, load_checkpoint, error, global_step,
                   generator_loss_history, generator_l2_loss_history,
                   generator_tfr_history, test_loss_history, test_tfr_history,
                   generator_weights, ufr, disk, runs, executed, saved>>

\* line 149: the for loop is exhausted
SimulatorPhaseDone ==
    /\ pc = "simulator_phase"
    /\ i = hyper_params.SimulatorSteps
    /\ pc' = "generator_phase"
    /\ i' = 0
    /\ UNCHANGED <<dataVars, textureVars, optimiserVars, stepVars, hyper_params, load_checkpoint, error, global_step, histories,
                   simulator_weights, generator_weights, ufr, disk, runs,
                   executed, saved>>

\* generator_loss, lines 387-388: main loss and L2 penalty are appended
generator_loss_appended(loss, l2, step, sub) ==
    /\ generator_loss_history' = Append(loss, Entry("gen_main", "adv", step, sub))
    /\ generator_l2_loss_history' = Append(l2, Entry("gen_l2", "adv", step, sub))

\* mutant: the TFR is recorded for the first sub-step of a cycle only
fool_rates_recorded_FirstOnly(tfr, step, sub) ==
    /\ generator_tfr_history' = IF sub = 0 THEN Append(tfr, Entry("gen_tfr", "adv", step, sub))
                                ELSE tfr
    /\ ufr' = <<Entry("ufr", "adv", step, sub)>>

\* lines 173-176: TFR and UFR are computed; the TFR is appended, the UFR is
\* only printed (line 177)
fool_rates_recorded(tfr, step, sub) ==
    /\ generator_tfr_history' = Append(tfr, Entry("gen_tfr", "adv", step, sub))
    /\ ufr' = <<Entry("ufr", "adv", step, sub)>>

\* lines 169-178: one generator sub-step
GeneratorStep ==
    /\ pc = "generator_phase"
    /\ i < hyper_params.GeneratorSteps
    /\ generator_loss_appended(generator_loss_history, generator_l2_loss_history,
                               Val(global_step), i)
    /\ generator_weights' = generator_weights + 1
    /\ fool_rates_recorded(generator_tfr_history, Val(global_step), i)
    /\ i' = i + 1
    /\ get_next_batch("train")
    /\ loss_computed(Val(global_step))
    /\ UNCHANGED <<dataRest, textureVars, optimiserVars, enemy_weights, follow_samples, last_update,
                   hyper_params, load_checkpoint, pc, error, global_step,
                   simulator_loss_history, simulator_accuracy_history,
                   test_loss_history, test_tfr_history,
                   simulator_weights, disk, runs, executed, saved>>

\* line 168: the for loop is exhausted
GeneratorPhaseDone ==
    /\ pc = "generator_phase"
    /\ i = hyper_params.GeneratorSteps
    /\ pc' = "validate"
    /\ i' = 0
    /\ UNCHANGED <<dataVars, textureVars, optimiserVars, stepVars, hyper_params, load_checkpoint, error, global_step, histories,
                   simulator_weights, generator_weights, ufr, disk, runs,
                   executed, saved>>

\* mutant: validation is due one cycle after each multiple
validation_due_OneLate(step, after) == step % after = 1 % after

\* line 181: the condition of the if
validation_due(step, after) == step % after = 0

\* line 181: k % 0 raises ZeroDivisionError
ValidateTest ==
    /\ pc = "validate"
    /\ IF hyper_params.ValidateAfter = 0
       THEN Raise("ZeroDivisionError")
       ELSE /\ pc' = IF validation_due(Val(global_step), hyper_params.ValidateAfter)
                     THEN "evaluate_periodic" ELSE "increment"
            /\ error' = error
    /\ UNCHANGED <<dataVars, textureVars, optimiserVars, stepVars, hyper_params, load_checkpoint, global_step, i, histories,
                   simulator_weights, generator_weights, ufr, disk, runs,
                   executed, saved>>

(***************************************************************************)
(* save (lines 525-538): three files are written one after the other       *)
(***************************************************************************)
SaveSimulator ==
    /\ pc = "save_simulator"
    /\ disk' = [disk EXCEPT !.simulator = [exists |-> TRUE, weights |-> simulator_weights]]
    /\ pc' = "save_generator"
    /\ UNCHANGED <<dataVars, textureVars, optimiserVars, stepVars, hyper_params, load_checkpoint, error, global_step, i, histories,
                   simulator_weights, generator_weights, ufr, runs,
                   executed, saved>>

SaveGenerator ==
    /\ pc = "save_generator"
    /\ disk' = [disk EXCEPT !.generator = [exists |-> TRUE, weights |-> generator_weights]]
    /\ pc' = "save_history"
    /\ UNCHANGED <<dataVars, textureVars, optimiserVars, stepVars, hyper_params, load_checkpoint, error, global_step, i, histories,
                   simulator_weights, generator_weights, ufr, runs,
                   executed, saved>>

\* lines 536-538: the arguments of np.savez in the order the code passes them
saved_arrays(step) ==
    <<simulator_loss_history, simulator_accuracy_history,
      generator_loss_history, generator_tfr_history, generator_l2_loss_history,
      test_loss_history, test_tfr_history, <<step>> >>

SaveHistory ==
    /\ pc = "save_history"
    /\ disk' = [disk EXCEPT !.history = savez(saved_arrays(Val(global_step)))]
    /\ saved' = [executed |-> executed, histories |-> histories,
                 step |-> Val(global_step)]
    /\ pc' = "increment"
    /\ UNCHANGED <<dataVars, textureVars, optimiserVars, stepVars, hyper_params, load_checkpoint, error, global_step, i, histories,
                   simulator_weights, generator_weights, ufr, runs, executed>>

\* line 185
Increment ==
    /\ pc = "increment"
    /\ global_step' = IntVal(Val(global_step) + 1)
    /\ pc' = "loop"
    /\ UNCHANGED <<dataVars, textureVars, optimiserVars, stepVars, hyper_params, load_checkpoint, error, i, histories,
                   simulator_weights, generator_weights, ufr, disk, runs,
                   executed, saved>>

(***************************************************************************)
(* A new process (lines 612-617): the running one ended or was stopped, a  *)
(* new AdvNet is constructed and train is called on it.  When resuming,    *)
(* the archive found at ./training_history.npz is the one save wrote, or   *)
(* an archive of another schema that lacks one of the eight arrays.        *)
(***************************************************************************)
ArchivesFound(archive) ==
    {archive} \cup
    IF archive.exists
    THEN {[archive EXCEPT !.keys = ArchiveKeys \ {k}] : k \in ArchiveKeys}
    ELSE {}

NewProcess ==
    /\ runs < MaxRuns
    /\ runs' = runs + 1
    /\ \E lc \in BOOLEAN :
         /\ load_checkpoint' = lc
         /\ pc' = Entry_pc(lc)
         /\ IF lc
            THEN \E a \in ArchivesFound(disk.history) :
                    disk' = [disk EXCEPT !.history = a]
            ELSE disk' = disk
    /\ NewNet(simulator_loss_history', simulator_accuracy_history',
              generator_loss_history', generator_l2_loss_history',
              generator_tfr_history', test_loss_history', test_tfr_history',
              simulator_weights', generator_weights')
    /\ error' = "none"
    /\ global_step' = None
    /\ i' = 0
    /\ ufr' = <<>>
    /\ executed' = <<>>
    /\ enemy_weights' = 0
    /\ batches' = 0
    /\ batch' = 0
    /\ last_update' = NoUpdate
    /\ samples' = NoSamples
    /\ index_queue' = <<>>
    /\ nonfinite_step' = None
    /\ UNCHANGED <<dataRest, textureVars, optimiserVars, follow_samples, nonfinite_budget, hyper_params, saved>>

(***************************************************************************)
(* Specification of the training controller                                *)
(***************************************************************************)
DataIdle ==
    /\ mode = "idle"
    /\ index_queue = <<>>
    /\ index_log = <<>>
    /\ batch_labels = <<>>
    /\ batch_target_labels = <<>>
    /\ batch_textures = <<>>
    /\ bpc = "idle"
    /\ tl_pc = "idle"
    /\ tl_truth = Dog
    /\ tl_label_set = {}
    /\ tl_target = 0
    /\ ipt_args = <<>>
    /\ ipt_ret = "none"
    /\ enemy_labels = <<>>
    /\ fool_rates = NotMeasured

TextureIdle ==
    /\ std_textures = <<>>
    /\ adversarial_noises = <<>>
    /\ adversarial_textures = <<>>

OptimiserIdle ==
    /\ rate_params = [DecayAfter |-> 1, DecayRate |-> <<1, 1>>]
    /\ iterations = [simulator |-> 0, generator |-> 0]

InitTrain(follow, budget) ==
    /\ hyper_params \in HyperParams
    /\ load_checkpoint \in BOOLEAN
    /\ pc = Entry_pc(load_checkpoint)
    /\ error = "none"
    /\ global_step = None
    /\ i = 0
    /\ NewNet(simulator_loss_history, simulator_accuracy_history,
              generator_loss_history, generator_l2_loss_history,
              generator_tfr_history, test_loss_history, test_tfr_history,
              simulator_weights, generator_weights)
    /\ ufr = <<>>
    /\ disk = EmptyDisk
    /\ runs = 1
    /\ executed = <<>>
    /\ saved = [executed |-> <<>>, histories |-> <<<<>>, <<>>, <<>>, <<>>, <<>>, <<>>, <<>>>>,
                step |-> 0]
    /\ enemy_weights = 0
    /\ batches = 0
    /\ batch = 0
    /\ last_update = NoUpdate
    /\ follow_samples = follow
    /\ samples = NoSamples
    /\ nonfinite_budget = budget
    /\ nonfinite_step = None
    /\ DataIdle
    /\ TextureIdle
    /\ OptimiserIdle

\* the training controller alone: the batches are counted, the indices in
\* them are not followed, and every loss is finite
Init == InitTrain(FALSE, 0)

Next ==
    \/ WarmUpTrainStep
    \/ WarmUpTrainDone
    \/ WarmUpEvalStep
    \/ WarmUpFinish
    \/ LoadModel
    \/ EvaluateInitialStep
    \/ EvaluateInitialFinish
    \/ LoopTest
    \/ SimulatorCleanStep
    \/ SimulatorAdvStep
    \/ SimulatorPhaseDone
    \/ GeneratorStep
    \/ GeneratorPhaseDone
    \/ ValidateTest
    \/ EvaluatePeriodicStep
    \/ EvaluatePeriodicFinish
    \/ SaveSimulator
    \/ SaveGenerator
    \/ SaveHistory
    \/ Increment
    \/ NewProcess


Spec == Init /\ [][Next]_vars

(***************************************************************************)
(* The training controller with its scheduling: a process that has not     *)
(* ended keeps executing (the code is one thread; every sub-step is a      *)
(* finite computation).  SpecRun follows one process from the call of      *)
(* train to its end.                                                       *)
(***************************************************************************)
TrainStep ==
    \/ WarmUpTrainStep
    \/ WarmUpTrainDone
    \/ WarmUpEvalStep
    \/ WarmUpFinish
    \/ LoadModel
    \/ EvaluateInitialStep
    \/ EvaluateInitialFinish
    \/ LoopTest
    \/ SimulatorCleanStep
    \/ SimulatorAdvStep
    \/ SimulatorPhaseDone
    \/ GeneratorStep
    \/ GeneratorPhaseDone
    \/ ValidateTest
    \/ EvaluatePeriodicStep
    \/ EvaluatePeriodicFinish
    \/ SaveSimulator
    \/ SaveGenerator
    \/ SaveHistory
    \/ Increment

SpecRun == Init /\ [][TrainStep]_vars /\ WF_vars(TrainStep)

\* one process in which one training loss may come out non-finite
InitNumeric == InitTrain(FALSE, 1)
SpecNumeric == InitNumeric /\ [][TrainStep]_vars

\* one process, with the dataset indices of its batches followed.  train
\* passes its one data_generator on to warm_up_simulator and to evaluate
\* (lines 142, 144, 182), so every batch comes from the same index stream.
InitSamples == InitTrain(TRUE, 0)
SpecSamples == InitSamples /\ [][TrainStep]_vars


(***************************************************************************)
(* Properties of the training controller                                   *)
(***************************************************************************)
\* a resumed run whose load_training_history has just returned a step
JustResumed ==
    /\ load_checkpoint
    /\ pc = "evaluate_initial"
    /\ i = 0
    /\ ~IsNone(global_step)

\* a cold-started run at the head of the main loop, c cycles completed
ColdAtLoopHead(c) ==
    /\ ~load_checkpoint
    /\ pc = "loop"
    /\ global_step = IntVal(c + 1)

\* C3: Resume round-trip of the step counter.  Along a run that is
\* checkpointed and resumed, the GlobalStep values whose cycle is executed
\* (the stopped run up to its checkpoint, then the resumed run) are
\* 1, 2, 3, ... with no gap and no repeated value.
C3_ResumeNoGapNoRepeat ==
    \A n \in 1..Len(executed) : executed[n] = n

\* C4: History save/load round-trip.  When load_training_history has read
\* the archive written by save(step), each of the seven histories equals
\* the history of the same name at the time of save, and the returned step
\* is the saved step.
C4_HistoryRoundTrip ==
    JustResumed => /\ histories = saved.histories
                   /\ Val(global_step) = saved.step

\* the archive load_model finds is missing or lacks one of the eight arrays
BadArchive == ~disk.history.exists \/ disk.history.keys # ArchiveKeys

\* C5: Resume errors are fatal.  When train is entered with
\* load_checkpoint=True and the archive is missing or lacks one of the
\* eight arrays, loading stops the run with an error: the run goes no
\* further than load_model, so it runs no cycle and no warm-up.
C5_ResumeErrorsFatal ==
    (load_checkpoint /\ BadArchive /\ pc # "load_model")
        => (pc = "error" /\ error \in {"NotFoundError", "KeyError"})

\* C6: History length invariant.  At every sub-step boundary and after any
\* number of cycles the simulator loss and accuracy histories have the same
\* length, and so have the generator loss, L2-penalty and TFR histories.
\* (A load that raised KeyError half-way is not a sub-step boundary.)
C6_HistoryLengths ==
    error # "KeyError" =>
        /\ Len(simulator_loss_history) = Len(simulator_accuracy_history)
        /\ Len(generator_loss_history) = Len(generator_l2_loss_history)
        /\ Len(generator_l2_loss_history) = Len(generator_tfr_history)

C6_Witness ==
    /\ pc = "loop"
    /\ Len(simulator_loss_history) >= 2
    /\ Len(generator_tfr_history) >= 2
    /\ Len(simulator_loss_history) # Len(generator_tfr_history)

\* an entry appended by a warm-up step: its step argument is below 0 (line 202)
IsWarmUpEntry(e) == What(e) \in {"sim_loss", "sim_acc"} /\ StepOf(e) < 0

\* C7: Warm-up history is discarded.  When warm_up_simulator returns the
\* simulator loss and accuracy histories are empty; after a cold start and
\* one full cycle their length is SimulatorSteps; and no entry recorded
\* during warm-up (a step below 0, line 202) is in any array of the archive.
C7_WarmUpDiscarded ==
    /\ (~load_checkpoint /\ pc = "evaluate_initial")
          => (simulator_loss_history = <<>> /\ simulator_accuracy_history = <<>>)
    /\ ColdAtLoopHead(1)
          => /\ Len(simulator_loss_history) = hyper_params.SimulatorSteps
             /\ Len(simulator_accuracy_history) = hyper_params.SimulatorSteps
    /\ \A k \in 0..6 : \A n \in 1..Len(arr(disk.history, k)) :
          ~IsWarmUpEntry(arr(disk.history, k)[n])

C7_Witness ==
    /\ ColdAtLoopHead(1)
    /\ hyper_params.WarmupSteps >= 1
    /\ hyper_params.SimulatorSteps >= 1
    /\ disk.history.exists
    /\ Len(arr(disk.history, 0)) >= 1

\* number of UFR values recorded in the histories of the object
Count(h, what) == Cardinality({n \in 1..Len(h) : What(h[n]) = what})
UfrHistoryLen ==
    Count(simulator_loss_history, "ufr") + Count(simulator_accuracy_history, "ufr")
    + Count(generator_loss_history, "ufr") + Count(generator_l2_loss_history, "ufr")
    + Count(generator_tfr_history, "ufr")
    + Count(test_loss_history, "ufr") + Count(test_tfr_history, "ufr")

Ended == pc \in {"done", "error"}
\* the positions inside the body of the main loop (lines 149-185)
InCycle == pc \in {"simulator_phase", "simulator_adv", "generator_phase", "validate",
                   "evaluate_periodic", "save_simulator", "save_generator",
                   "save_history", "increment"}
\* hyper-parameters with which no step of a cold-started run divides by zero
NoZeroDivisor ==
    /\ hyper_params.WarmupEvaluationSteps >= 1
    /\ hyper_params.TestSteps >= 1
    /\ hyper_params.ValidateAfter >= 1

\* C12: Termination on step budget.  A run whose every step completes
\* always eventually leaves the main loop: a run ends, and a cold-started
\* run ends with an exception only when a hyper-parameter it divides by is
\* zero.  The loop is left exactly when GlobalStep first exceeds TotalSteps
\* (inside a cycle GlobalStep <= TotalSteps, at the exit it is
\* TotalSteps + 1); GlobalStep never decreases and grows only by 1, at the
\* end of a full cycle; and a cold-started run that returns has executed
\* exactly the cycles 1 .. TotalSteps.
C12_Termination ==
    /\ (~Ended) ~> Ended
    /\ [](pc = "error" /\ ~load_checkpoint => ~NoZeroDivisor)
    /\ [](InCycle => Val(global_step) <= hyper_params.TotalSteps)
    /\ [](pc = "done" => Val(global_step) = hyper_params.TotalSteps + 1)
    /\ [][(global_step' # global_step /\ ~IsNone(global_step) /\ ~IsNone(global_step'))
            => (pc = "increment" /\ pc' = "loop"
                /\ Val(global_step') = Val(global_step) + 1)]_vars
    /\ [][(InCycle /\ pc' = "loop") => Val(global_step') = Val(global_step) + 1]_vars
    /\ [](pc = "done" /\ ~load_checkpoint
            => executed = [n \in 1..hyper_params.TotalSteps |-> n])

C12_Witness ==
    /\ pc = "done"
    /\ ~load_checkpoint
    /\ hyper_params.SimulatorSteps = 2
    /\ hyper_params.GeneratorSteps = 1
    /\ Len(executed) = MaxTotalSteps
    /\ global_step = IntVal(MaxTotalSteps + 1)

\* C13: Non-finite loss is fatal.  Once a simulator or generator loss has
\* come out NaN or infinite in a sub-step, the run ends with an error at
\* that step: no cycle of a later GlobalStep is executed and no checkpoint
\* is written afterwards.
C13_NonFiniteLossFatal ==
    ~IsNone(nonfinite_step) =>
        /\ InCycle => Val(global_step) <= Val(nonfinite_step)
        /\ disk.history.exists => saved.step < Val(nonfinite_step)

\* the running process goes on (it is not replaced by a new one)
SameProcess == runs' = runs
Last(h) == h[Len(h)]

\* C15: Simulator-phase protocol.  A simulator sub-step is two steps.  The
\* first draws one batch and updates the simulator on its clean textures;
\* the entries of that update do not remain in the histories.  The second
\* draws no batch: it updates the simulator on adversarial textures the
\* generator made in inference mode from the batch of the first, at the
\* same GlobalStep, and leaves one loss and one accuracy entry, those of
\* the adversarial update.  The generator's parameters change in neither,
\* so a sub-step draws exactly one batch, applies exactly two simulator
\* updates and grows each simulator history by exactly one entry.
C15_SimulatorProtocol ==
    /\ [][(pc = "simulator_phase" /\ pc' # "generator_phase" /\ SameProcess) =>
            /\ pc' = "simulator_adv"
            /\ batches' = batches + 1
            /\ batch' = batches'
            /\ simulator_weights' = simulator_weights + 1
            /\ last_update' = Update("clean", batch', Val(global_step), "none")
            /\ simulator_loss_history' = simulator_loss_history
            /\ simulator_accuracy_history' = simulator_accuracy_history
            /\ generator_weights' = generator_weights
            /\ global_step' = global_step]_vars
    /\ [][(pc = "simulator_adv" /\ SameProcess) =>
            /\ pc' = "simulator_phase"
            /\ i' = i + 1
            /\ batches' = batches
            /\ batch' = batch
            /\ last_update.on = "clean" /\ last_update.batch = batch
            /\ simulator_weights' = simulator_weights + 1
            /\ last_update' = Update("adv", batch, Val(global_step), "inference")
            /\ last_update'.step = last_update.step
            /\ Len(simulator_loss_history') = Len(simulator_loss_history) + 1
            /\ Len(simulator_accuracy_history') = Len(simulator_accuracy_history) + 1
            /\ Last(simulator_loss_history') = Entry("sim_loss", "adv", Val(global_step), i)
            /\ Last(simulator_accuracy_history') = Entry("sim_acc", "adv", Val(global_step), i)
            /\ generator_weights' = generator_weights
            /\ global_step' = global_step]_vars

\* two sub-steps of the first cycle are over
C15_Witness ==
    /\ pc = "simulator_phase"
    /\ i = 2
    /\ global_step = IntVal(1)
    /\ batches = 2 + hyper_params.WarmupSteps + hyper_params.WarmupEvaluationSteps
                   + hyper_params.TestSteps
    /\ simulator_weights = 4 + hyper_params.WarmupSteps
    /\ Len(simulator_loss_history) = 2
    /\ last_update = Update("adv", batches, 1, "inference")

\* C16: Simulator and generator histories are length-matched.  After any
\* number of completed cycles, whatever SimulatorSteps and GeneratorSteps
\* are, the simulator loss history and the generator loss history have the
\* same length.
C16_LengthMatched ==
    pc = "loop" => Len(simulator_loss_history) = Len(generator_loss_history)

\* the checkpoint on disk is complete and is the one of the running cycle:
\* the weights files hold the current parameters and the archive holds the
\* current histories and the GlobalStep of the cycle
CheckpointOfCycle ==
    /\ disk.simulator = [exists |-> TRUE, weights |-> simulator_weights]
    /\ disk.generator = [exists |-> TRUE, weights |-> generator_weights]
    /\ disk.history.exists
    /\ disk.history.keys = ArchiveKeys
    /\ arr(disk.history, 7) = <<Val(global_step)>>
    /\ arr(disk.history, 5) = test_loss_history
    /\ arr(disk.history, 6) = test_tfr_history
    /\ arr(disk.history, 0) = simulator_loss_history
    /\ arr(disk.history, 2) = generator_loss_history
SavePositions == {"save_simulator", "save_generator", "save_history"}

\* C17: Validation cadence and checkpoint order.  At the end of a cycle a
\* validation pass followed by a checkpoint happens if and only if the
\* cycle's GlobalStep is a multiple of ValidateAfter, whatever
\* SimulatorSteps and GeneratorSteps are.  The checkpoint is written after
\* the cycle's simulator and generator sub-steps, after the validation has
\* appended its entries, and with the GlobalStep of the cycle; nothing is
\* written to disk at any other point.
C17_ValidationCadence ==
    /\ [](pc = "increment" =>
            (Val(global_step) % hyper_params.ValidateAfter = 0 <=> CheckpointOfCycle))
    /\ [](pc \in SavePositions \cup {"evaluate_periodic"} =>
            Val(global_step) % hyper_params.ValidateAfter = 0)
    /\ [][(disk' # disk /\ SameProcess) => pc \in SavePositions]_vars
    /\ [][(pc' \in SavePositions /\ pc \notin SavePositions /\ SameProcess) =>
            /\ pc = "evaluate_periodic" /\ pc' = "save_simulator"
            /\ i = hyper_params.TestSteps
            /\ test_loss_history' = Append(test_loss_history, Last(test_loss_history'))
            /\ test_tfr_history' = Append(test_tfr_history, Last(test_tfr_history'))
            /\ StepOf(Last(test_tfr_history')) = generator_weights]_vars
    /\ [][(pc' = "evaluate_periodic" /\ pc # "evaluate_periodic" /\ SameProcess) =>
            pc = "validate"]_vars
    /\ [][(pc' = "validate" /\ SameProcess) =>
            (pc = "generator_phase" /\ i = hyper_params.GeneratorSteps)]_vars
    /\ [][(pc' = "generator_phase" /\ pc # "generator_phase" /\ SameProcess) =>
            (pc = "simulator_phase" /\ i = hyper_params.SimulatorSteps)]_vars
    /\ [][(pc \in SavePositions /\ SameProcess) =>
            (global_step' = global_step /\ histories' = histories
             /\ simulator_weights' = simulator_weights
             /\ generator_weights' = generator_weights)]_vars

\* the second cycle has ended with a validation and a checkpoint; the first
\* has not written one
C17_Witness ==
    /\ pc = "increment"
    /\ global_step = IntVal(2)
    /\ hyper_params.ValidateAfter = 2
    /\ hyper_params.SimulatorSteps = 2
    /\ hyper_params.GeneratorSteps = 1
    /\ runs = 1
    /\ CheckpointOfCycle
    /\ Len(test_loss_history) = 2

\* a resumed run at the head of the main loop for the first time: its
\* GlobalStep is still the step of the archive it restored (at every later
\* loop head it is above the step of any archive written)
ResumedAtFirstLoopHead ==
    /\ load_checkpoint
    /\ pc = "loop"
    /\ ~IsNone(global_step)
    /\ arr(disk.history, 7) = <<Val(global_step)>>

\* C18: Resuming enters Cycling directly.  When train is called with
\* load_checkpoint=True, between the restore and the first simulator
\* sub-step of the first resumed cycle no batch is drawn (no warm-up step,
\* no validation pass) and the histories are those the restore assigned:
\* nothing has been appended to them.
C18_ResumeDirect ==
    ResumedAtFirstLoopHead =>
        /\ batches = 0
        /\ simulator_loss_history = arr(disk.history, 0)
        /\ simulator_accuracy_history = arr(disk.history, 1)
        /\ generator_loss_history = arr(disk.history, 2)
        /\ generator_l2_loss_history = arr(disk.history, 3)
        /\ generator_tfr_history = arr(disk.history, 4)
        /\ test_loss_history = arr(disk.history, 5)
        /\ test_tfr_history = arr(disk.history, 6)

\* the five histories written per training sub-step
training_histories ==
    <<simulator_loss_history, simulator_accuracy_history, generator_loss_history,
      generator_l2_loss_history, generator_tfr_history>>
\* a step of the training protocol: the process goes on and is past the
\* point where its networks were constructed or restored from a checkpoint
ProtocolStep == SameProcess /\ pc # "load_model"
InEvaluate == pc \in {"evaluate_initial", "evaluate_periodic"}

C20_ValidationHeldOut ==
    samples.test \cap samples.train = {}

\* a cycle boundary: the head of the main loop, with the cycles counted over
\* the whole training (the stopped runs up to the checkpoint restored, then
\* the current run)
AtCycleBoundary ==
    /\ pc = "loop"
    /\ ~IsNone(global_step)
    /\ hyper_params.ValidateAfter >= 1
CyclesCompleted == Len(executed)

\* C23: Test-history length.  At every cycle boundary, whether the run was
\* cold-started or resumed, each of the two test histories holds
\* 1 + floor(k / ValidateAfter) entries, where k is the number of cycles
\* completed so far over the whole training.
C23_TestHistoryLength ==
    AtCycleBoundary =>
        /\ Len(test_loss_history) = 1 + (CyclesCompleted \div hyper_params.ValidateAfter)
        /\ Len(test_tfr_history) = 1 + (CyclesCompleted \div hyper_params.ValidateAfter)

\* bounds of the label arguments the harness tries
MaxListLen == 2

\* the ints a labels.txt of the harness may hold: the ends of the label
\* space, a label inside the dog range, and an int outside the label space
LabelValues == {0, 5, 275, 999, 1000}
RECURSIVE SeqsUpTo(_, _)
SeqsUpTo(S, n) ==
    IF n = 0 THEN {<<>>}
    ELSE LET shorter == SeqsUpTo(S, n - 1)
         IN  shorter \cup {Append(q, x) : q \in {r \in shorter : Len(r) = n - 1}, x \in S}

\* Model3D._load_labels (lines 128-133) returns "dog" or a non-empty list of ints
LoadableLabels == {Dog} \cup {List(q) : q \in SeqsUpTo(LabelValues, MaxListLen) \ {<<>>}}
\* a labels.txt that lists every label of the label space
FullList == List([n \in 1..1000 |-> n - 1])
\* the arguments the harness of get_random_target_label tries
TargetArguments == LoadableLabels \cup {FullList}
\* values of another shape
OtherShapes == {Tuple(<<5>>), Str("cat"), Str(""), Tuple(<<>>)}

\* random.randint(0, 999), line 275
randint(a, b) == a..b
LabelSpace == randint(0, 999)

\* line 271: set(ground_truth_labels); the set of a string holds characters
label_set(ground_truth_labels) ==
    IF ground_truth_labels.shape \in {"list", "tuple"}
    THEN Elements(ground_truth_labels.items)
    ELSE {}

\* mutant: the dog range is tested one short at its upper end
accepts_DogOffByOne(ground_truth_labels, labels, target_label) ==
    IF ground_truth_labels = Dog
    THEN target_label < 151 \/ target_label > 274
    ELSE target_label \notin labels

\* mutant: the dog range test of line 279 written with `and`
accepts_DogNever(ground_truth_labels, labels, target_label) ==
    IF ground_truth_labels = Dog
    THEN target_label < 151 /\ target_label > 275
    ELSE target_label \notin labels

\* lines 278-283: whether the loop returns the drawn target_label
accepts(ground_truth_labels, labels, target_label) ==
    IF ground_truth_labels = Dog
    THEN target_label < 151 \/ target_label > 275
    ELSE target_label \notin labels

\* mutant: the dog range test of line 304 written with <=
is_prediction_true_Inclusive(true_labels, predicted_label) ==
    IF true_labels = Dog
    THEN IF 150 <= predicted_label /\ predicted_label <= 276 THEN "True" ELSE "False"
    ELSE IF true_labels.shape = "list"
    THEN IF predicted_label \in Elements(true_labels.items) THEN "True" ELSE "False"
    ELSE "ValueError"

\* is_prediction_true (lines 286-314): "True", "False", or the exception raised
is_prediction_true(true_labels, predicted_label) ==
    IF true_labels = Dog
    THEN IF 150 < predicted_label /\ predicted_label < 276 THEN "True" ELSE "False"
    ELSE IF true_labels.shape = "list"
    THEN IF predicted_label \in Elements(true_labels.items) THEN "True" ELSE "False"
    ELSE "ValueError"


(***************************************************************************)
(* get_random_target_label (lines 256-283) as the loop it is.  Called on   *)
(* its own it draws from the whole label space; inside get_next_batch the  *)
(* model draws from the sample BatchDraws of the label space, so that the  *)
(* retained batches stay few.                                              *)
(***************************************************************************)
BatchDraws == {0, 5, 151, 275, 276, 999}
Draws == IF mode = "batch" THEN BatchDraws ELSE LabelSpace

batchVars == <<index_queue, index_log, batch_labels, batch_target_labels, batch_textures, bpc>>

\* the call, from a test harness
CallTargetLabel ==
    /\ mode = "target_label"
    /\ tl_pc = "idle"
    /\ \E g \in TargetArguments :
          /\ tl_truth' = g
          /\ tl_label_set' = label_set(g)
    /\ tl_pc' = "draw"
    /\ UNCHANGED <<trainVars, textureVars, optimiserVars, measureVars, mode, batchVars, tl_target, ipt_args, ipt_ret>>

\* line 275
TargetDraw ==
    /\ tl_pc = "draw"
    /\ \E t \in Draws : tl_target' = t
    /\ tl_pc' = "test"
    /\ UNCHANGED <<trainVars, textureVars, optimiserVars, measureVars, mode, batchVars, tl_truth, tl_label_set, ipt_args, ipt_ret>>

\* lines 278-283: return the target, or go round the loop again.  A
\* rejected target_label is dead (line 275 assigns the local before it is
\* read again), so the model forgets it.
TargetTest ==
    /\ tl_pc = "test"
    /\ IF accepts(tl_truth, tl_label_set, tl_target)
       THEN tl_pc' = "returned" /\ tl_target' = tl_target
       ELSE tl_pc' = "draw" /\ tl_target' = 0
    /\ UNCHANGED <<trainVars, textureVars, optimiserVars, measureVars, mode, batchVars, tl_truth, tl_label_set,
                   ipt_args, ipt_ret>>

\* a call of is_prediction_true, from a test harness
CallIsPredictionTrue ==
    /\ mode = "is_prediction_true"
    /\ ipt_ret = "none"
    /\ \E g \in LoadableLabels \cup OtherShapes, p \in -1..1000 :
          /\ ipt_args' = <<g, p>>
          /\ ipt_ret' = is_prediction_true(g, p)
    /\ UNCHANGED <<trainVars, textureVars, optimiserVars, measureVars, mode, batchVars, tl_pc, tl_truth, tl_label_set, tl_target>>

\* line 231.  In train the call is line 169, at the head of a generator step:
\* enemy_labels, tfr and ufr of the step before are not read again (lines
\* 172-174 assign them first), so the model forgets them.
GetNextBatch ==
    /\ mode = "batch"
    /\ bpc \in {"idle", "returned", "measured"}
    /\ batch_labels' = <<>>
    /\ bpc' = "sample"
    /\ enemy_labels' = <<>>
    /\ fool_rates' = NotMeasured
    /\ UNCHANGED <<trainVars, textureVars, optimiserVars, mode, index_queue, index_log, batch_target_labels,
                   batch_textures, tl_pc, tl_truth, tl_label_set, tl_target, ipt_args, ipt_ret>>

\* lines 233-237 and the call of line 238: position Len(batch_labels) + 1
BatchTakeSample ==
    /\ bpc = "sample"
    /\ Len(batch_labels) < BatchSize
    /\ \E q \in IndexStream(index_queue, NumModels) :
          LET next == get_next_sample(q)
          IN  /\ index_queue' = next.stream
              /\ index_log' = Logged(index_log, next.index, NumModels)
              /\ batch_textures' = [batch_textures EXCEPT ![Len(batch_labels) + 1] = next.index]
              /\ batch_labels' = Append(batch_labels, next.sample)
              /\ tl_truth' = next.sample
              /\ tl_label_set' = label_set(next.sample)
    /\ tl_pc' = "draw"
    /\ bpc' = "target"
    /\ UNCHANGED <<trainVars, textureVars, optimiserVars, measureVars, mode, batch_target_labels, tl_target,
                   ipt_args, ipt_ret>>

\* line 238: the assignment
target_stored(targets, position, target_label) ==
    [targets EXCEPT ![position] = target_label]

BatchStoreTarget ==
    /\ bpc = "target"
    /\ tl_pc = "returned"
    /\ batch_target_labels' = target_stored(batch_target_labels, Len(batch_labels), tl_target)
    /\ tl_pc' = "idle"
    /\ bpc' = "sample"
    /\ UNCHANGED <<trainVars, textureVars, optimiserVars, measureVars, mode, index_queue, index_log, batch_labels,
                   batch_textures, tl_truth, tl_label_set, tl_target, ipt_args, ipt_ret>>

\* line 240
BatchReturn ==
    /\ bpc = "sample"
    /\ Len(batch_labels) = BatchSize
    /\ bpc' = "returned"
    /\ UNCHANGED <<trainVars, textureVars, optimiserVars, measureVars, mode, index_queue, index_log, batch_labels,
                   batch_target_labels, batch_textures, tl_pc, tl_truth, tl_label_set, tl_target,
                   ipt_args, ipt_ret>>

(***************************************************************************)
(* The fool rates of a generator step (advnet.py, train lines 172-174 and  *)
(* get_ufr lines 101-123) on the batch get_next_batch returned.            *)
(***************************************************************************)
\* the Oracle's hard labels tried: argmax over its 1000 classes, sampled so
\* that every object of the dataset has a prediction that is one of its
\* labels, one that can be its target label, and one that is neither
EnemyLabels == {5, 151, 276, 999}

\* np.mean of a list of booleans, as the fraction <<number true, length>>
mean(bools) == <<Cardinality({n \in 1..Len(bools) : bools[n]}), Len(bools)>>

\* zip of two sequences stops at the shorter
zip_len(a, b) == IF Len(a) < Len(b) THEN Len(a) ELSE Len(b)

\* mutant: the accuracy is not negated
get_ufr_NotNegated(predictions, true_labels) ==
    LET are_predictions_correct ==
            [n \in 1..zip_len(true_labels, predictions) |->
                is_prediction_true(true_labels[n], predictions[n])]
    IN  IF \E n \in DOMAIN are_predictions_correct : are_predictions_correct[n] = "ValueError"
        THEN [error |-> "ValueError", ufr |-> <<0, 1>>]
        ELSE [error |-> "none",
              ufr |-> mean([n \in DOMAIN are_predictions_correct |->
                               are_predictions_correct[n] = "True"])]

\* get_ufr (lines 101-123)
get_ufr(predictions, true_labels) ==
    LET are_predictions_correct ==
            [n \in 1..zip_len(true_labels, predictions) |->
                is_prediction_true(true_labels[n], predictions[n])]
    IN  IF \E n \in DOMAIN are_predictions_correct : are_predictions_correct[n] = "ValueError"
        THEN [error |-> "ValueError", ufr |-> <<0, 1>>]
        ELSE [error |-> "none",
              ufr |-> mean([n \in DOMAIN are_predictions_correct |->
                               ~(are_predictions_correct[n] = "True")])]

\* line 173: np.mean(target_labels == enemy_labels.numpy())
get_tfr(target_labels, predictions) ==
    mean([n \in 1..Len(target_labels) |-> target_labels[n] = predictions[n]])

\* lines 172-174, on the batch line 169 was given
FoolRates ==
    /\ mode = "batch"
    /\ bpc = "returned"
    /\ \E predictions \in [1..BatchSize -> EnemyLabels] :
          /\ enemy_labels' = predictions
          /\ fool_rates' =
                LET u == get_ufr(predictions, batch_labels)
                IN  [error |-> u.error,
                     tfr |-> get_tfr(batch_target_labels, predictions),
                     ufr |-> u.ufr]
    /\ bpc' = "measured"
    /\ UNCHANGED <<trainVars, textureVars, optimiserVars, mode, index_queue, index_log, batch_labels,
                   batch_target_labels, batch_textures, tl_pc, tl_truth, tl_label_set, tl_target,
                   ipt_args, ipt_ret>>

TrainIdle ==
    /\ hyper_params = [TotalSteps |-> 0, SimulatorSteps |-> 0, GeneratorSteps |-> 0,
                       ValidateAfter |-> 0, WarmupSteps |-> 0,
                       WarmupEvaluationSteps |-> 0, TestSteps |-> 0]
    /\ load_checkpoint = FALSE
    /\ pc = "idle"
    /\ error = "none"
    /\ global_step = None
    /\ i = 0
    /\ NewNet(simulator_loss_history, simulator_accuracy_history,
              generator_loss_history, generator_l2_loss_history,
              generator_tfr_history, test_loss_history, test_tfr_history,
              simulator_weights, generator_weights)
    /\ ufr = <<>>
    /\ disk = EmptyDisk
    /\ runs = 0
    /\ executed = <<>>
    /\ saved = [executed |-> <<>>, histories |-> <<<<>>, <<>>, <<>>, <<>>, <<>>, <<>>, <<>>>>,
                step |-> 0]
    /\ enemy_weights = 0
    /\ batches = 0
    /\ batch = 0
    /\ last_update = NoUpdate
    /\ follow_samples = FALSE
    /\ samples = NoSamples
    /\ nonfinite_budget = 0
    /\ nonfinite_step = None

\* BatchGenerator.__init__ (lines 206-214)
InitData ==
    /\ mode \in {"target_label", "is_prediction_true", "batch"}
    /\ index_queue = <<>>
    /\ index_log = <<>>
    /\ batch_labels = <<>>
    /\ batch_target_labels = [n \in 1..BatchSize |-> 0]
    /\ batch_textures = [n \in 1..BatchSize |-> 0]
    /\ bpc = "idle"
    /\ tl_pc = "idle"
    /\ tl_truth = Dog
    /\ tl_label_set = {}
    /\ tl_target = 0
    /\ ipt_args = <<>>
    /\ ipt_ret = "none"
    /\ enemy_labels = <<>>
    /\ fool_rates = NotMeasured
    /\ TrainIdle
    /\ TextureIdle
    /\ OptimiserIdle

NextData ==
    \/ CallTargetLabel
    \/ TargetDraw
    \/ TargetTest
    \/ CallIsPredictionTrue
    \/ GetNextBatch
    \/ BatchTakeSample
    \/ BatchStoreTarget
    \/ BatchReturn
    \/ FoolRates

SpecData == InitData /\ [][NextData]_vars

(***************************************************************************)
(* get_random_target_label on its own, with its scheduling: the loop keeps *)
(* running, and random.randint is uniform over the label space, so a draw  *)
(* that can be accepted again and again is eventually made.                *)
(***************************************************************************)
InitTarget == InitData /\ mode = "target_label"

\* some label of the label space is accepted (what the draw below needs to
\* be enabled)
SomeLabelAccepted == tl_truth = Dog \/ ~((0..999) \subseteq tl_label_set)
AcceptedDraw ==
    /\ SomeLabelAccepted
    /\ TargetDraw
    /\ accepts(tl_truth, tl_label_set, tl_target')

NextTarget ==
    \/ CallTargetLabel
    \/ TargetDraw
    \/ TargetTest

SpecTarget ==
    /\ InitTarget
    /\ [][NextTarget]_vars
    /\ WF_vars(NextTarget)
    /\ SF_vars(AcceptedDraw)


(***************************************************************************)
(* Properties of data.py                                                   *)
(***************************************************************************)
\* whether t is one of the correct labels that ground truth g stands for
IsGroundTruthLabel(g, t) ==
    IF g = Dog THEN 151 <= t /\ t <= 275 ELSE t \in Elements(g.items)

\* C1: Target-label exclusion.  Every value get_random_target_label(L)
\* returns lies in the label space 0..999 and is no label of L (for "dog",
\* is outside 151..275); and in every batch get_next_batch returns, the
\* target label at each position is no ground-truth label of that position.
C1_TargetExclusion ==
    /\ tl_pc = "returned"
          => (tl_target \in 0..999 /\ ~IsGroundTruthLabel(tl_truth, tl_target))
    /\ bpc = "returned"
          => \A n \in 1..BatchSize :
                ~IsGroundTruthLabel(batch_labels[n], batch_target_labels[n])

C1_Witness ==
    /\ bpc = "returned"
    /\ batch_labels[1] = Dog
    /\ batch_target_labels[1] = 276
    /\ batch_labels[2] = List(<<5>>)
    /\ batch_target_labels[2] = 151

\* C2: Label-correctness predicate.  is_prediction_true("dog", p) is true
\* iff 151 <= p <= 275; is_prediction_true(L, p) for a list L is true iff
\* p is an element of L; for a ground truth of any other shape the call
\* raises an error and returns no boolean.
C2_LabelCorrectness ==
    ipt_ret # "none" =>
        LET g == ipt_args[1]
            p == ipt_args[2]
        IN  IF g.shape = "str" /\ g.str = "dog"
            THEN ipt_ret = (IF 151 <= p /\ p <= 275 THEN "True" ELSE "False")
            ELSE IF g.shape = "list"
            THEN ipt_ret = (IF \E n \in 1..Len(g.items) : g.items[n] = p
                            THEN "True" ELSE "False")
            ELSE ipt_ret = "ValueError"

C2_Witness ==
    /\ ipt_ret = "True"
    /\ ipt_args[1] = Dog
    /\ ipt_args[2] = 275

\* the labels the ground truth of the running call excludes from the label
\* space: 151..275 for "dog", else the ground-truth labels (the set of line
\* 271) that lie within 0..999
Excluded == IF tl_truth = Dog THEN 151..275 ELSE tl_label_set \cap (0..999)
InTargetLoop == tl_pc \in {"draw", "test"}
\* whether the excluded set of the running call is the whole label space
CoversLabelSpace == (0..999) \subseteq Excluded

\* C14: Termination of target-label selection.  A call whose excluded set
\* (the ground-truth labels within 0..999, or 151..275 for "dog") is a
\* proper subset of the label space eventually returns under fair uniform
\* draws; a call whose ground truth covers all of 0..999 never returns: once
\* called it is inside the loop for ever (it has no raise statement).
C14_TargetTermination ==
    /\ (InTargetLoop /\ ~CoversLabelSpace) ~> (tl_pc = "returned")
    /\ [](tl_pc \notin {"idle", "draw", "test"} => ~CoversLabelSpace)

\* the loop has drawn 999, which it rejects, and will go round again
C14_Witness ==
    /\ tl_pc = "test"
    /\ tl_truth = List(<<0, 999>>)
    /\ tl_target = 999

\* whether a log holds every dataset index exactly once
CoversDataset(log) ==
    /\ Len(log) = NumModels
    /\ \A m \in 1..NumModels : Cardinality({n \in 1..Len(log) : log[n] = m}) = 1

TargetHits == {n \in 1..BatchSize : enemy_labels[n] = batch_target_labels[n]}
\* the positions of the batch whose prediction is a ground-truth label
CorrectPredictions ==
    {n \in 1..BatchSize : is_prediction_true(batch_labels[n], enemy_labels[n]) = "True"}

\* C22: for every batch get_next_batch returned and every vector of Oracle
\* predictions, get_ufr raises nothing and the untargeted fool rate is at
\* least the transfer fool rate, because a prediction equal to the target
\* label is never a ground-truth label; both rates are whole numbers of
\* BatchSize-ths between 0 and 1.
C22_FoolRateOrdering ==
    bpc = "measured" =>
        /\ fool_rates.error = "none"
        /\ fool_rates.tfr[2] = BatchSize
        /\ fool_rates.ufr[2] = BatchSize
        /\ fool_rates.tfr[1] \in 0..BatchSize
        /\ fool_rates.ufr[1] \in 0..BatchSize
        /\ fool_rates.tfr[1] <= fool_rates.ufr[1]
        /\ TargetHits \cap CorrectPredictions = {}

\* a measured batch with one prediction on target, one correct prediction
\* and the rest neither; the prediction on target is made for a dog
C22_Witness ==
    /\ bpc = "measured"
    /\ Cardinality(TargetHits) = 1
    /\ Cardinality(CorrectPredictions) = 1
    /\ fool_rates.tfr = <<1, BatchSize>>
    /\ fool_rates.ufr = <<BatchSize - 1, BatchSize>>
    /\ \E n \in TargetHits : batch_labels[n] = Dog /\ enemy_labels[n] = 276

(***************************************************************************)
(* generate_adversarial_texture (lines 253-278)                            *)
(*                                                                         *)
(* A texture is a sequence of elements.  A value v of the model stands     *)
(* for the float v / Quantum, so 0 is 0.0 and Quantum is 1.0.              *)
(***************************************************************************)
Quantum == 2
TextureLen == 2

Textures == [1..TextureLen -> 0..Quantum]
\* what the generator network may emit for an element
Noises == [1..TextureLen -> (0 - 2 * Quantum)..(2 * Quantum)]

\* line 273: the generator's input, 2.0 * std_textures - 1.0
generator_input(textures) == [n \in DOMAIN textures |-> 2 * textures[n] - Quantum]

\* mutant: the noise is added to the texture as rescaled for the generator
noise_added_ToGeneratorInput(noises, textures) ==
    [n \in DOMAIN textures |-> noises[n] + generator_input(textures)[n]]

\* line 275
noise_added(noises, textures) ==
    [n \in DOMAIN textures |-> noises[n] + textures[n]]

\* mutant: only the upper end is clipped
clip_by_value_UpperOnly(t, lo, hi) ==
    [n \in DOMAIN t |-> IF t[n] > hi THEN hi ELSE t[n]]

\* tf.clip_by_value, line 276
clip_by_value(t, lo, hi) ==
    [n \in DOMAIN t |-> IF t[n] < lo THEN lo ELSE IF t[n] > hi THEN hi ELSE t[n]]

\* line 273: the generator network runs on the rescaled texture
RunGenerator ==
    /\ std_textures # <<>>
    /\ adversarial_noises = <<>>
    /\ \E noise \in Noises : adversarial_noises' = noise
    /\ UNCHANGED <<trainVars, dataVars, optimiserVars, std_textures, adversarial_textures>>

\* lines 275-278
AddAndClip ==
    /\ adversarial_noises # <<>>
    /\ adversarial_textures = <<>>
    /\ adversarial_textures' = clip_by_value(noise_added(adversarial_noises, std_textures),
                                             0, Quantum)
    /\ UNCHANGED <<trainVars, dataVars, optimiserVars, std_textures, adversarial_noises>>

InitTexture ==
    /\ std_textures \in Textures
    /\ adversarial_noises = <<>>
    /\ adversarial_textures = <<>>
    /\ TrainIdle
    /\ DataIdle
    /\ OptimiserIdle

NextTexture ==
    \/ RunGenerator
    \/ AddAndClip

SpecTexture == InitTexture /\ [][NextTexture]_vars

\* the element-wise sum clean + noise, before clipping
Sum(n) == std_textures[n] + adversarial_noises[n]

\* C9: Adversarial texture clamping.  For a clean texture in [0,1] and any
\* noise, every element of the result is in [0,1]: an element whose sum
\* clean + noise is above 1 is exactly 1, one whose sum is below 0 is
\* exactly 0, and a sum inside the range is returned unchanged.
C9_TextureClamped ==
    adversarial_textures # <<>> =>
        \A n \in 1..TextureLen :
            /\ 0 <= adversarial_textures[n] /\ adversarial_textures[n] <= Quantum
            /\ Sum(n) > Quantum => adversarial_textures[n] = Quantum
            /\ Sum(n) < 0 => adversarial_textures[n] = 0
            /\ (0 <= Sum(n) /\ Sum(n) <= Quantum) => adversarial_textures[n] = Sum(n)

C9_Witness ==
    /\ adversarial_textures # <<>>
    /\ Sum(1) > Quantum
    /\ Sum(2) < 0
    /\ adversarial_textures[1] = Quantum
    /\ adversarial_textures[2] = 0

\* C10: Zero-perturbation identity.  When the generator output is zero in
\* every element and the clean texture has its values in [0,1], the result
\* equals the clean texture element for element.
C10_ZeroPerturbation ==
    (adversarial_textures # <<>> /\ \A n \in 1..TextureLen : adversarial_noises[n] = 0)
        => adversarial_textures = std_textures

C10_Witness ==
    /\ adversarial_textures # <<>>
    /\ \A n \in 1..TextureLen : adversarial_noises[n] = 0
    /\ std_textures[1] = Quantum
    /\ std_textures[2] = 1
    /\ adversarial_textures = std_textures

(***************************************************************************)
(* The two Adam optimisers and their learning rates (advnet.py, __init__   *)
(* lines 46-52; the updates of lines 308 and 337).  Specification          *)
(* SpecRate draws the decay hyper parameters and lets each optimiser apply *)
(* its updates.                                                            *)
(*                                                                         *)
(* A learning rate is an exact fraction <<numerator, denominator>>.  The   *)
(* schedule raises DecayRate to the power step / DecayAfter, which is a    *)
(* fraction again when DecayRate is the DecayAfter-th power of one: the    *)
(* decay rates drawn are the DecayAfter-th powers of DecayRoots.           *)
(***************************************************************************)
MaxDecayAfter == 2
MaxIterations == 4

Optimisers == {"simulator", "generator"}

RECURSIVE IntPow(_, _)
IntPow(x, n) == IF n = 0 THEN 1 ELSE x * IntPow(x, n - 1)

RatPow(r, n) == <<IntPow(r[1], n), IntPow(r[2], n)>>
RatMul(x, y) == <<x[1] * y[1], x[2] * y[2]>>
RatLess(x, y) == x[1] * y[2] < y[1] * x[2]

\* config.py lines 10-11: 0.004 and 0.001
GeneratorLearningRate == <<4, 1000>>
SimulatorLearningRate == <<1, 1000>>

\* the per-step factors DecayRate ^ (1 / DecayAfter) of the decay rates drawn:
\* two that decay and one that does not
DecayRoots == {<<1, 2>>, <<9, 10>>, <<1, 1>>}
RateParams ==
    {[DecayAfter |-> d, DecayRate |-> RatPow(f, d)] : d \in 1..MaxDecayAfter, f \in DecayRoots}

\* tf.keras.optimizers.schedules.ExponentialDecay with staircase left at its
\* default False: initial_learning_rate * decay_rate ^ (step / decay_steps)
ExponentialDecay(initial_learning_rate, decay_steps, decay_rate, step) ==
    LET root == CHOOSE f \in DecayRoots : RatPow(f, decay_steps) = decay_rate
    IN  RatMul(initial_learning_rate, RatPow(root, step))

\* line 46-49: the schedule of the simulator
sim_learning_rate_schedule(step) ==
    ExponentialDecay(SimulatorLearningRate, rate_params.DecayAfter, rate_params.DecayRate, step)

\* the initial learning rate of each optimiser
initial_rate(optimiser) ==
    IF optimiser = "simulator" THEN SimulatorLearningRate ELSE GeneratorLearningRate

\* lines 51-52: the learning rate an optimiser applies at a given count of its
\* own updates.  Only the simulator's optimiser is built on the schedule; the
\* generator's is built on the number GeneratorLearningRate.
learning_rate(optimiser, step) ==
    IF optimiser = "simulator"
    THEN sim_learning_rate_schedule(step)
    ELSE GeneratorLearningRate

\* line 308: simulator_optimiser.apply_gradients
SimulatorApplyGradients ==
    /\ iterations.simulator < MaxIterations
    /\ iterations' = [iterations EXCEPT !.simulator = @ + 1]
    /\ UNCHANGED <<trainVars, dataVars, textureVars, rate_params>>

\* line 337: generator_optimiser.apply_gradients
GeneratorApplyGradients ==
    /\ iterations.generator < MaxIterations
    /\ iterations' = [iterations EXCEPT !.generator = @ + 1]
    /\ UNCHANGED <<trainVars, dataVars, textureVars, rate_params>>

InitRate ==
    /\ TrainIdle
    /\ DataIdle
    /\ TextureIdle
    /\ rate_params \in RateParams
    /\ iterations = [simulator |-> 0, generator |-> 0]

NextRate ==
    \/ SimulatorApplyGradients
    \/ GeneratorApplyGradients

SpecRate == InitRate /\ [][NextRate]_vars

(***************************************************************************)
(* Properties of the optimisers                                            *)
(***************************************************************************)
Decays == RatLess(rate_params.DecayRate, <<1, 1>>)

\* C21: with a decay rate below 1, the learning rate of each optimiser, the
\* generator's as well as the simulator's, is strictly below its initial
\* rate once the optimiser has applied DecayAfter updates of its own.
C21_IndependentDecay ==
    \A o \in Optimisers :
        (Decays /\ iterations[o] = rate_params.DecayAfter)
            => RatLess(learning_rate(o, iterations[o]), initial_rate(o))

====
